---- MODULE Spec2Model ----
(***************************************************************************)
(* Streaming transcription gateway (run.py): the model pool (get_model),   *)
(* the transcription session (transcribe_media_stream, an async generator  *)
(* driven by the StreamingResponse on one event loop) and the two request  *)
(* handlers (transcribe_by_path, transcribe_by_upload).                    *)
(*                                                                         *)
(* Strings are sequences of one-character strings, so that concatenation,  *)
(* extension splitting and case folding are computed as the code computes  *)
(* them.  An action is the code that runs between two suspension points    *)
(* (a yield of the generator or an await): on the single-threaded event    *)
(* loop nothing else runs in between.                                      *)
(***************************************************************************)
EXTENDS Integers, Sequences, FiniteSets, TLC

\* ------------------------------------------------------------------ bounds

\* Requests the service accepts in one run of the model.
MaxRequests == 3

\* Largest number of segments the engine yields for one file.
MaxSegs == 2

\* Requests served at the same time: each is one handler call and, once the
\* handler returned, one generator drained by the StreamingResponse.
Sessions == {1, 2}

\* ------------------------------------------------------------- string helpers

\* Index of the last occurrence of character c in p; 0 when there is none
\* (Python's rfind, shifted by one).
RFind(p, c) ==
    LET hits == {i \in 1..Len(p) : p[i] = c}
    IN  IF hits = {} THEN 0 ELSE CHOOSE i \in hits : \A j \in hits : j <= i

\* str.lower() on the characters the model uses.
LowerChar(c) ==
    CASE c = "M" -> "m"
      [] c = "P" -> "p"
      [] c = "W" -> "w"
      [] c = "A" -> "a"
      [] c = "V" -> "v"
      [] OTHER -> c

Lower(p) == [i \in 1..Len(p) |-> LowerChar(p[i])]

\* os.path.splitext(p)[1]: the text from the last dot of the last path
\* component, unless that component has only leading dots before it.
splitext_ext(p) ==
    LET sepIndex == RFind(p, "/")
        dotIndex == RFind(p, ".")
    IN  IF dotIndex > sepIndex
           /\ \E i \in (sepIndex + 1)..(dotIndex - 1) : p[i] # "."
        THEN SubSeq(p, dotIndex, Len(p))
        ELSE <<>>

\* os.path.basename(p)
basename(p) == SubSeq(p, RFind(p, "/") + 1, Len(p))

\* pathlib's Path(name).suffix: the text from the last dot of the last
\* component when that dot is neither its first nor its last character.
PathSuffix(name) ==
    LET b == basename(name)
        i == RFind(b, ".")
    IN  IF 1 < i /\ i < Len(b) THEN SubSeq(b, i, Len(b)) ELSE <<>>

audio_formats ==
    { <<".", "m", "p", "3">>, <<".", "w", "a", "v">>, <<".", "m", "4", "a">>,
      <<".", "a", "a", "c">>, <<".", "o", "g", "g">>, <<".", "f", "l", "a", "c">>,
      <<".", "w", "m", "a">> }

video_formats ==
    { <<".", "m", "p", "4">>, <<".", "a", "v", "i">>, <<".", "m", "o", "v">>,
      <<".", "m", "k", "v">>, <<".", "w", "m", "v">>, <<".", "f", "l", "v">>,
      <<".", "w", "e", "b", "m">>, <<".", "m", "4", "v">>, <<".", "3", "g", "p">> }

get_file_type(file_path) ==
    LET file_ext == Lower(splitext_ext(file_path))
    IN  IF file_ext \in audio_formats THEN "audio"
        ELSE IF file_ext \in video_formats THEN "video"
        ELSE "unknown"

\* ------------------------------------------------------------------ inputs

\* Media locators a by-path request may carry.
PathAudio == <<"/", "a", ".", "m", "p", "3">>
PathVideo == <<"/", "b", ".", "M", "P", "4">>
PathMissing == <<"/", "x", ".", "w", "a", "v">>
MediaPaths == {PathAudio, PathVideo, PathMissing}

\* Files present on the serving side when the service starts.
InitialFiles == {PathAudio, PathVideo}

\* Names of uploaded files.
UploadAudio == <<"u", ".", "m", "p", "3">>
UploadNames == {UploadAudio}

\* (model_size, device, compute_type) of a request: arbitrary query strings.
CfgA == [model_size |-> <<"m">>, device |-> <<"c">>, compute_type |-> <<"i", "_", "f">>]
CfgB == [model_size |-> <<"m", "_", "c">>, device |-> <<"i">>, compute_type |-> <<"f">>]
CfgC == [model_size |-> <<"s">>, device |-> <<"c">>, compute_type |-> <<"f">>]
Configs == {CfgA, CfgB, CfgC}

\* What the engine may yield as the k-th segment of a file (start, end,
\* text): the engine's output is decided by the file, the session reads it
\* lazily, one segment per turn of its loop.
EngineYields(path, k) ==
    { [start |-> k - 1, end |-> k,
       text |-> IF (k % 2 = 1) = (path = PathAudio) THEN "hi" ELSE "there"] }

\* info.language the engine may report.
Languages == {"zh"}

\* Characters of the unique part of a temporary file name.
TmpChars == <<"0", "1", "2", "3", "4", "5", "6", "7", "8", "9">>

\* tempfile.NamedTemporaryFile(suffix=...).name for the n-th file created.
TempName(n, suffix) == <<"/", "t", TmpChars[n + 1]>> \o suffix

\* ------------------------------------------------------------------- state

VARIABLES
    pc,             \* per session: where the handler / generator is suspended
    req,            \* per session: the request it serves
    media_path,     \* per session: the generator's media_path argument
    tmp_file,       \* per session: name of its NamedTemporaryFile (<<>>: none)
    file_type,      \* per session: the generator's file_type local
    segment_count,  \* per session: the generator's segment_count local
    model,          \* per session: the instance get_model returned (0: none)
    events,         \* per session: the events yielded so far, in order
    produced,       \* per session: the segments the engine yielded so far
    exc,            \* per session: the exception raised while serving it
    start_miss,     \* per session: its key was not cached when it yielded Start
    fs,             \* the files that exist on the serving side
    model_cache,    \* _model_cache: cache key -> instance
    ctor_calls,     \* cache key -> number of WhisperModel(...) calls
    ctor_fails,     \* cache key -> number of those calls that raised
    n_inst,         \* number of instances constructed so far
    n_tmp,          \* number of temporary files created so far
    n_req,          \* number of requests accepted so far
    client          \* the client process (asr.py): its position and locals

server_vars == <<pc, req, media_path, tmp_file, file_type, segment_count,
                 model, events, produced, exc, fs, model_cache, ctor_calls,
                 ctor_fails, n_inst, n_tmp, n_req, start_miss>>

vars == <<pc, req, media_path, tmp_file, file_type, segment_count, model,
          events, produced, exc, fs, model_cache, ctor_calls, ctor_fails,
          n_inst, n_tmp, n_req, start_miss, client>>

\* Where a request is over: the generator returned, an exception left the
\* handler or the generator, or the response was cancelled.
Ended == {"done", "raised", "cancelled"}

NoReq == [kind |-> "none"]

\* ---------------------------------------------------------------- the pool

\* cache_key = f"{model_size}_{device}_{compute_type}"
cache_key(cfg) ==
    cfg.model_size \o <<"_">> \o cfg.device \o <<"_">> \o cfg.compute_type

CacheKeys == {cache_key(c) : c \in Configs}

\* Mutant: the membership test is dropped, every call constructs.
NeedsConstruct_always(cache, key) == TRUE

\* if cache_key not in _model_cache
NeedsConstruct(cache, key) == key \notin DOMAIN cache

\* Mutant: a one-entry cache, storing a model evicts the others.
StoreModel_evict(cache, key, inst) == (key :> inst)

\* _model_cache[cache_key] = <instance>
StoreModel(cache, key, inst) ==
    [k \in DOMAIN cache \cup {key} |-> IF k = key THEN inst ELSE cache[k]]

\* Mutant: an entry is stored although the constructor raised.
CacheAfterGetModel_storeFailed(cache, key, ctor_ok, inst) ==
    IF key \notin DOMAIN cache
    THEN [k \in DOMAIN cache \cup {key} |-> IF k = key THEN inst ELSE cache[k]]
    ELSE cache

\* The cache after one get_model call whose constructor, if it runs,
\* succeeds (ctor_ok) and returns inst, or raises (~ctor_ok): the assignment
\* is not executed when the right-hand side raises.
CacheAfterGetModel(cache, key, ctor_ok, inst) ==
    IF NeedsConstruct(cache, key) /\ ctor_ok
    THEN StoreModel(cache, key, inst)
    ELSE cache

\* ------------------------------------------------------------------ events

StartEvent(path, ft) ==
    [type |-> "start", file_name |-> basename(path), file_type |-> ft]

LangEvent(lang) == [type |-> "language_detected", language |-> lang]

\* Mutant: segment_count is a module-level counter all sessions advance.
SegCount_shared(counts, s) == counts[1] + counts[2]

\* segment_count: a local of the generator of session s.
SegCount(counts, s) == counts[s]

\* Mutant: the counter is not advanced before it is used as the id.
NextSegmentId_stuck(count) == count

\* segment_count += 1
NextSegmentId(count) == count + 1

SegmentEvent(id, seg) ==
    [type |-> "segment", segment_id |-> id, start_time |-> seg.start,
     end_time |-> seg.end, text |-> seg.text]

CompleteEvent(count, ft) ==
    [type |-> "complete", total_segments |-> count, file_type |-> ft]

ErrorEvent(msg) == [type |-> "error", error_message |-> msg]

\* Mutant: the exception is swallowed, no error event is yielded.
OnException_silent(evs, msg) == evs

\* except Exception as e: yield the error event
OnException(evs, msg) == Append(evs, ErrorEvent(msg))

\* Mutant: the generator returns after the loop without a complete event.
OnExhausted_silent(evs, count, ft) == evs

\* after the loop: yield the complete event
OnExhausted(evs, count, ft) == Append(evs, CompleteEvent(count, ft))

\* -------------------------------------------------------------------- Init

\* An output file of the client: not there, opened for writing and not yet
\* completely written, or written and closed.
Absent == [st |-> "absent"]
Partial == [st |-> "partial"]
Written(content) == [st |-> "written", content |-> content]

\* The client process when main() starts.
ClientStart ==
    [pc |-> "main",            \* where the process is
     upload |-> FALSE,         \* args.upload
     save |-> FALSE,           \* args.save is given
     health |-> "none",        \* what the health endpoint answered
     requests |-> <<>>,        \* the transcription requests sent, in order
     sent |-> <<>>,            \* the frames the response carries
     lines |-> <<>>,           \* the lines iter_lines has still to yield
     segments |-> <<>>,        \* the segments list
     total_text |-> <<>>,      \* the total_text string
     terminal_seen |-> FALSE,  \* a complete or error event was handled
     out_text |-> Absent,      \* the text file at the save destination
     out_json |-> Absent,      \* the '<stem>_detailed.json' file
     save_failed |-> FALSE,    \* an open() of _save_to_file raised
     outcome |-> "none",       \* how the transcription call ended
     exit_code |-> -1]         \* the exit status of the process (-1: running)

Init ==
    /\ client = ClientStart
    /\ pc = [s \in Sessions |-> "idle"]
    /\ req = [s \in Sessions |-> NoReq]
    /\ media_path = [s \in Sessions |-> <<>>]
    /\ tmp_file = [s \in Sessions |-> <<>>]
    /\ file_type = [s \in Sessions |-> "none"]
    /\ segment_count = [s \in Sessions |-> 0]
    /\ model = [s \in Sessions |-> 0]
    /\ events = [s \in Sessions |-> <<>>]
    /\ produced = [s \in Sessions |-> <<>>]
    /\ exc = [s \in Sessions |-> "none"]
    /\ start_miss = [s \in Sessions |-> FALSE]
    /\ fs = InitialFiles
    /\ model_cache = <<>>
    /\ ctor_calls = [k \in CacheKeys |-> 0]
    /\ ctor_fails = [k \in CacheKeys |-> 0]
    /\ n_inst = 0
    /\ n_tmp = 0
    /\ n_req = 0

\* ---------------------------------------------------------------- handlers

\* A new handler call and the generator it creates start with fresh locals.
FreshLocals(s) ==
    /\ file_type' = [file_type EXCEPT ![s] = "none"]
    /\ segment_count' = [segment_count EXCEPT ![s] = 0]
    /\ model' = [model EXCEPT ![s] = 0]
    /\ events' = [events EXCEPT ![s] = <<>>]
    /\ produced' = [produced EXCEPT ![s] = <<>>]
    /\ exc' = [exc EXCEPT ![s] = "none"]
    /\ start_miss' = [start_miss EXCEPT ![s] = FALSE]

\* GET /asr: the handler only builds the StreamingResponse around a
\* generator that has not started yet.
transcribe_by_path(s) ==
    /\ pc[s] \in {"idle"} \cup Ended
    /\ n_req < MaxRequests
    /\ n_req' = n_req + 1
    /\ \E p \in MediaPaths, c \in Configs :
          /\ req' = [req EXCEPT ![s] = [kind |-> "path", name |-> p, cfg |-> c]]
          /\ media_path' = [media_path EXCEPT ![s] = p]
    /\ pc' = [pc EXCEPT ![s] = "created"]
    /\ tmp_file' = [tmp_file EXCEPT ![s] = <<>>]
    /\ FreshLocals(s)
    /\ UNCHANGED <<client, fs, model_cache, ctor_calls, ctor_fails, n_inst, n_tmp>>

\* POST /asr/upload, up to `await file.read()`: the temporary file is
\* created (delete=False) and the handler is suspended.
transcribe_by_upload_begin(s) ==
    /\ pc[s] \in {"idle"} \cup Ended
    /\ n_req < MaxRequests
    /\ n_req' = n_req + 1
    /\ \E f \in UploadNames, c \in Configs :
          /\ req' = [req EXCEPT ![s] = [kind |-> "upload", name |-> f, cfg |-> c]]
          /\ tmp_file' = [tmp_file EXCEPT ![s] = TempName(n_tmp, PathSuffix(f))]
          /\ fs' = fs \cup {TempName(n_tmp, PathSuffix(f))}
    /\ n_tmp' = n_tmp + 1
    /\ pc' = [pc EXCEPT ![s] = "staging"]
    /\ media_path' = [media_path EXCEPT ![s] = <<>>]
    /\ FreshLocals(s)
    /\ UNCHANGED <<client, model_cache, ctor_calls, ctor_fails, n_inst>>

\* POST /asr/upload after the read returned: the bytes are written, the
\* with-block closes the file, the StreamingResponse is built around a
\* generator that has not started, and the finally clause unlinks the file
\* as the handler returns.
transcribe_by_upload_stage(s) ==
    /\ pc[s] = "staging"
    /\ media_path' = [media_path EXCEPT ![s] = tmp_file[s]]
    /\ fs' = fs \ {tmp_file[s]}
    /\ pc' = [pc EXCEPT ![s] = "created"]
    /\ UNCHANGED <<client, req, tmp_file, file_type, segment_count, model, events,
                   produced, exc, model_cache, ctor_calls, ctor_fails, n_inst, n_tmp, n_req, start_miss>>

\* POST /asr/upload when file.read() or tmp_file.write() raises: the
\* with-block closes the file without deleting it (delete=False) and the
\* exception leaves the handler before the try/finally is entered.
transcribe_by_upload_stage_fail(s) ==
    /\ pc[s] = "staging"
    /\ exc' = [exc EXCEPT ![s] = "OSError"]
    /\ pc' = [pc EXCEPT ![s] = "raised"]
    /\ UNCHANGED <<client, req, media_path, tmp_file, file_type, segment_count, model,
                   events, produced, fs, model_cache, ctor_calls, ctor_fails,
                   n_inst, n_tmp, n_req, start_miss>>

\* ----------------------------------------------------------------- session

\* First resumption of the generator: the existence check, which raises out
\* of the generator (it is before the try), else the start event.
stream_begin(s) ==
    /\ pc[s] = "created"
    /\ IF media_path[s] \notin fs
       THEN /\ exc' = [exc EXCEPT ![s] = "FileNotFoundError"]
            /\ pc' = [pc EXCEPT ![s] = "raised"]
            /\ UNCHANGED <<file_type, events, start_miss>>
       ELSE /\ file_type' = [file_type EXCEPT ![s] = get_file_type(media_path[s])]
            /\ events' = [events EXCEPT ![s] =
                  Append(@, StartEvent(media_path[s], get_file_type(media_path[s])))]
            /\ pc' = [pc EXCEPT ![s] = "started"]
            /\ start_miss' = [start_miss EXCEPT ![s] =
                  NeedsConstruct(model_cache, cache_key(req[s].cfg))]
            /\ UNCHANGED exc
    /\ UNCHANGED <<client, req, media_path, tmp_file, segment_count, model, produced,
                   fs, model_cache, ctor_calls, ctor_fails, n_inst, n_tmp, n_req>>

\* From the start event to the next yield: get_model (a cache hit, a
\* construction, or a constructor that raises), then model.transcribe (which
\* may raise), then the language event; an exception yields the error event.
stream_model(s) ==
    /\ pc[s] = "started"
    /\ LET key == cache_key(req[s].cfg)
           construct == NeedsConstruct(model_cache, key)
       IN  \E ctor_ok \in BOOLEAN, transcribe_ok \in BOOLEAN, lang \in Languages :
             /\ model_cache' = CacheAfterGetModel(model_cache, key, ctor_ok, n_inst + 1)
             /\ ctor_calls' = IF construct
                              THEN [ctor_calls EXCEPT ![key] = @ + 1]
                              ELSE ctor_calls
             /\ ctor_fails' = IF construct /\ ~ctor_ok
                              THEN [ctor_fails EXCEPT ![key] = @ + 1]
                              ELSE ctor_fails
             /\ n_inst' = IF construct /\ ctor_ok THEN n_inst + 1 ELSE n_inst
             /\ IF construct /\ ~ctor_ok
                THEN /\ exc' = [exc EXCEPT ![s] = "ModelInitError"]
                     /\ events' = [events EXCEPT ![s] = OnException(@, "ModelInitError")]
                     /\ pc' = [pc EXCEPT ![s] = "done"]
                     /\ UNCHANGED model
                ELSE /\ model' = [model EXCEPT ![s] = model_cache'[key]]
                     /\ IF transcribe_ok
                        THEN /\ events' = [events EXCEPT ![s] = Append(@, LangEvent(lang))]
                             /\ pc' = [pc EXCEPT ![s] = "lang"]
                             /\ UNCHANGED exc
                        ELSE /\ exc' = [exc EXCEPT ![s] = "EngineError"]
                             /\ events' = [events EXCEPT ![s] = OnException(@, "EngineError")]
                             /\ pc' = [pc EXCEPT ![s] = "done"]
    /\ UNCHANGED <<client, req, media_path, tmp_file, file_type, segment_count,
                   produced, fs, n_tmp, n_req, start_miss>>

\* Mutant: no `await asyncio.sleep` in the loop body, the resumption after
\* the segment event runs straight into the next turn.
LoopEntry_nosleep == {"lang", "sleep", "segment"}

\* Where the generator is suspended when a turn of the loop starts: at the
\* language event (first turn) or in `await asyncio.sleep(0.01)`.
LoopEntry == {"lang", "sleep"}

\* One turn of `for segment in segments`, entered after the language event
\* or after the sleep: the engine yields a segment, is exhausted, or raises.
stream_next_segment(s) ==
    /\ pc[s] \in LoopEntry
    /\ \/ \E seg \in EngineYields(media_path[s], Len(produced[s]) + 1) :
            /\ Len(produced[s]) < MaxSegs
            /\ produced' = [produced EXCEPT ![s] = Append(@, seg)]
            /\ segment_count' = [segment_count EXCEPT ![s] =
                  NextSegmentId(SegCount(segment_count, s))]
            /\ events' = [events EXCEPT ![s] =
                  Append(@, SegmentEvent(NextSegmentId(SegCount(segment_count, s)), seg))]
            /\ pc' = [pc EXCEPT ![s] = "segment"]
            /\ UNCHANGED exc
       \/ /\ events' = [events EXCEPT ![s] =
                  OnExhausted(@, SegCount(segment_count, s), file_type[s])]
          /\ pc' = [pc EXCEPT ![s] = "done"]
          /\ UNCHANGED <<produced, segment_count, exc>>
       \/ /\ exc' = [exc EXCEPT ![s] = "EngineError"]
          /\ events' = [events EXCEPT ![s] = OnException(@, "EngineError")]
          /\ pc' = [pc EXCEPT ![s] = "done"]
          /\ UNCHANGED <<produced, segment_count>>
    /\ UNCHANGED <<client, req, media_path, tmp_file, file_type, model, fs,
                   model_cache, ctor_calls, ctor_fails, n_inst, n_tmp, n_req, start_miss>>

\* Resumption after the segment event up to `await asyncio.sleep(0.01)`.
stream_sleep(s) ==
    /\ pc[s] = "segment"
    /\ pc' = [pc EXCEPT ![s] = "sleep"]
    /\ UNCHANGED <<client, req, media_path, tmp_file, file_type, segment_count, model,
                   events, produced, exc, fs, model_cache, ctor_calls,
                   ctor_fails, n_inst, n_tmp, n_req, start_miss>>

\* The client goes away while the response is streamed: the response task is
\* cancelled, the generator is never resumed again (CancelledError and
\* GeneratorExit are not caught by `except Exception`).
client_disconnect(s) ==
    /\ pc[s] \in {"created", "started", "lang", "segment", "sleep"}
    /\ pc' = [pc EXCEPT ![s] = "cancelled"]
    /\ UNCHANGED <<client, req, media_path, tmp_file, file_type, segment_count, model,
                   events, produced, exc, fs, model_cache, ctor_calls,
                   ctor_fails, n_inst, n_tmp, n_req, start_miss>>

Next ==
    \E s \in Sessions :
        \/ transcribe_by_path(s)
        \/ transcribe_by_upload_begin(s)
        \/ transcribe_by_upload_stage(s)
        \/ transcribe_by_upload_stage_fail(s)
        \/ stream_begin(s)
        \/ stream_model(s)
        \/ stream_next_segment(s)
        \/ stream_sleep(s)
        \/ client_disconnect(s)

Spec == Init /\ [][Next]_vars

\* ------------------------------------------------------- properties: helpers

Terminal == {"complete", "error"}

Last(evs) == evs[Len(evs)]

CountType(evs, t) == Cardinality({i \in 1..Len(evs) : evs[i].type = t})

SegmentEvents(evs) == SelectSeq(evs, LAMBDA e : e.type = "segment")

\* Start only and always first, at most one language event and it before
\* every segment, a terminal event only in the last place.
StreamShape(evs) ==
    /\ \A i \in 1..Len(evs) : (evs[i].type = "start") <=> (i = 1)
    /\ CountType(evs, "language_detected") <= 1
    /\ \A i, j \in 1..Len(evs) :
          evs[i].type = "language_detected" /\ evs[j].type = "segment" => i < j
    /\ \A i \in 1..Len(evs) : evs[i].type \in Terminal => i = Len(evs)

Streaming == {"started", "lang", "segment", "sleep"}

\* ---------------------------------------------------------------------- C1

\* C1: for a request whose media locator exists, the events of a session are
\* Start first, at most one LanguageDetected before every Segment, Segments,
\* and, once the generator has returned, exactly one terminal event in the
\* last place; no exception leaves the generator and nothing follows the
\* terminal event.
C1_EventShape ==
    \A s \in Sessions :
        (req[s].kind # "none" /\ media_path[s] \in fs) =>
            /\ pc[s] # "raised"
            /\ StreamShape(events[s])
            /\ pc[s] \in Streaming \cup {"done"} => Len(events[s]) >= 1
            /\ pc[s] \in Streaming => Last(events[s]).type \notin Terminal
            /\ pc[s] = "done" =>
                  /\ Last(events[s]).type \in Terminal
                  /\ CountType(events[s], "complete") + CountType(events[s], "error") = 1

\* A session that ran Start, LanguageDetected, two Segments, Complete.
C1_Witness ==
    \E s \in Sessions :
        /\ pc[s] = "done"
        /\ media_path[s] \in fs
        /\ Len(events[s]) = 5
        /\ events[s][2].type = "language_detected"
        /\ Last(events[s]).type = "complete"

\* ---------------------------------------------------------------------- C2

\* C2: in a session that emitted Complete, total_segments is the number of
\* Segment events, their segment_id values in emission order are 1, 2, ...,
\* total_segments, and the k-th Segment event carries the k-th segment the
\* engine yielded.
C2_SegmentIds ==
    \A s \in Sessions :
        (Len(events[s]) > 0 /\ Last(events[s]).type = "complete") =>
            LET segs == SegmentEvents(events[s])
            IN  /\ Last(events[s]).total_segments = Len(segs)
                /\ \A i \in 1..Len(segs) : segs[i].segment_id = i
                /\ Len(segs) = Len(produced[s])
                /\ \A i \in 1..Len(segs) :
                      /\ segs[i].start_time = produced[s][i].start
                      /\ segs[i].end_time = produced[s][i].end
                      /\ segs[i].text = produced[s][i].text

\* A completed session with two segments.
C2_Witness ==
    \E s \in Sessions :
        /\ Len(events[s]) > 0
        /\ Last(events[s]).type = "complete"
        /\ Last(events[s]).total_segments = 2
        /\ Len(SegmentEvents(events[s])) = 2

\* ---------------------------------------------------------------------- C3

\* C3 (as claimed): a by-path request whose media locator does not exist ends
\* with exactly one event, an Error, and no exception leaves the generator.
C3_NotFoundIsErrorEvent ==
    \A s \in Sessions :
        (req[s].kind = "path" /\ req[s].name \notin fs /\ pc[s] \in {"done", "raised"}) =>
            /\ pc[s] # "raised"
            /\ Len(events[s]) = 1
            /\ events[s][1].type = "error"

\* ---------------------------------------------------------------------- C4

\* C4: a step in which model resolution, the transcribe call or the segment
\* iteration raises, after Start and after any number of Segment events,
\* appends exactly one Error event to the events emitted so far and ends the
\* generator; that stream holds one Error, no Complete, and gets no further
\* event.
C4_ErrorAfterStart ==
    [][\A s \in Sessions :
          /\ (exc[s] = "none" /\ exc'[s] \in {"ModelInitError", "EngineError"}) =>
                /\ Len(events[s]) >= 1
                /\ events[s][1].type = "start"
                /\ events'[s] = Append(events[s], ErrorEvent(exc'[s]))
                /\ CountType(events'[s], "error") = 1
                /\ CountType(events'[s], "complete") = 0
                /\ pc'[s] = "done"
          /\ (pc[s] = "done" /\ pc'[s] = "done") => events'[s] = events[s]
      ]_vars

\* An engine failure after two Segment events were emitted.
C4_Witness ==
    \E s \in Sessions :
        /\ exc[s] = "EngineError"
        /\ Len(events[s]) = 5
        /\ events[s][4].type = "segment"
        /\ Last(events[s]).type = "error"

\* ---------------------------------------------------------------------- C5

\* C5 (as claimed): when the session of a by-upload request is about to
\* perform its existence check, the staged temporary file still exists.
C5_StagedFileExistsAtCheck ==
    \A s \in Sessions :
        (req[s].kind = "upload" /\ pc[s] = "created") => media_path[s] \in fs

\* ---------------------------------------------------------------------- C6

\* C6 (as claimed): once a by-upload request has ended, on whatever path, the
\* temporary file it created does not exist.
C6_TempFileDeleted ==
    \A s \in Sessions :
        (req[s].kind = "upload" /\ pc[s] \in Ended) => tmp_file[s] \notin fs

\* ---------------------------------------------------------------------- C7

\* C7 (as claimed): a by-upload request whose file name has an audio
\* extension and whose bytes were staged ends with a stream whose first event
\* is Start with file_type audio and whose last event is Complete or Error.
C7_UploadAudioStart ==
    \A s \in Sessions :
        (/\ req[s].kind = "upload"
         /\ get_file_type(req[s].name) = "audio"
         /\ exc[s] # "OSError"
         /\ pc[s] \in {"done", "raised"}) =>
            /\ Len(events[s]) >= 1
            /\ events[s][1].type = "start"
            /\ events[s][1].file_type = "audio"
            /\ Last(events[s]).type \in Terminal

\* ---------------------------------------------------------------------- C8

\* C8: for every cache key the constructor returns an instance at most once
\* (every other call of it raised), and any two sessions that hold a model for
\* the same key hold the same instance, whatever the interleaving.
C8_SingleConstruction ==
    /\ \A k \in CacheKeys : ctor_calls[k] - ctor_fails[k] <= 1
    /\ \A k \in CacheKeys : ctor_fails[k] = 0 => ctor_calls[k] <= 1
    /\ \A s, t \in Sessions :
          (/\ model[s] # 0
           /\ model[t] # 0
           /\ cache_key(req[s].cfg) = cache_key(req[t].cfg)) => model[s] = model[t]

\* Two sessions in flight that both yielded Start while their common key was
\* not cached, and now hold the one instance constructed for it.
C8_Witness ==
    /\ pc[1] = "lang"
    /\ pc[2] = "lang"
    /\ start_miss[1]
    /\ start_miss[2]
    /\ req[1].cfg = req[2].cfg
    /\ model[1] # 0
    /\ model[1] = model[2]
    /\ ctor_calls[cache_key(req[1].cfg)] = 1

\* ---------------------------------------------------------------------- C9

\* C9: no step removes or replaces a cache entry or runs the constructor for
\* a cached key, and a get_model call for a cached key returns the stored
\* instance.
C9_CacheStable ==
    [][/\ \A k \in DOMAIN model_cache :
             /\ k \in DOMAIN model_cache'
             /\ model_cache'[k] = model_cache[k]
             /\ ctor_calls'[k] = ctor_calls[k]
       /\ \A s \in Sessions :
             (/\ pc[s] = "started"
              /\ pc'[s] \in {"lang", "done"}
              /\ cache_key(req[s].cfg) \in DOMAIN model_cache) =>
                 model'[s] = model_cache[cache_key(req[s].cfg)]
      ]_vars

\* A session whose key was cached before it started got the first instance
\* while a second key is in the cache too.
C9_Witness ==
    \E s \in Sessions :
        /\ ~start_miss[s]
        /\ model[s] = 1
        /\ n_inst = 2
        /\ Cardinality(DOMAIN model_cache) = 2

\* --------------------------------------------------------------------- C10

\* C10: a get_model call whose constructor raises leaves the cache as it was
\* and ends the caller's stream with the Error event of that failure; a key
\* whose constructor never returned has no entry; and every get_model call
\* for a key without an entry runs the constructor, also after a failure.
C10_FailedConstruction ==
    [][/\ \A k \in CacheKeys :
             ctor_calls[k] = ctor_fails[k] => k \notin DOMAIN model_cache
       /\ \A s \in Sessions :
             LET key == cache_key(req[s].cfg)
             IN  (pc[s] = "started" /\ pc'[s] \in {"lang", "done"}) =>
                   /\ key \notin DOMAIN model_cache =>
                         ctor_calls'[key] = ctor_calls[key] + 1
                   /\ ctor_fails'[key] > ctor_fails[key] =>
                         /\ model_cache' = model_cache
                         /\ exc'[s] = "ModelInitError"
                         /\ model'[s] = 0
                         /\ Last(events'[s]) = ErrorEvent("ModelInitError")
      ]_vars

\* A key whose constructor raised once and was constructed by a later call.
C10_Witness ==
    \E k \in CacheKeys :
        /\ ctor_fails[k] >= 1
        /\ k \in DOMAIN model_cache

\* --------------------------------------------------------------------- C17

\* One step of the generator of session t.
SessionStep(t) ==
    \/ stream_begin(t)
    \/ stream_model(t)
    \/ stream_next_segment(t)
    \/ stream_sleep(t)

\* C17: a session emits a second or later Segment event only in a step that
\* resumes it from `await asyncio.sleep`, and whenever a session is suspended
\* there, every other session that has a stream in progress can take its
\* next step.
C17_YieldBetweenSegments ==
    [][/\ \A s \in Sessions :
             (/\ events'[s] # events[s]
              /\ Len(events'[s]) > 0
              /\ Last(events'[s]).type = "segment"
              /\ CountType(events[s], "segment") >= 1) => pc[s] = "sleep"
       /\ \A s, t \in Sessions :
             (s # t /\ pc[s] = "sleep" /\ pc[t] \in Streaming \cup {"created"}) =>
                 ENABLED SessionStep(t)
      ]_vars

\* Two sessions in flight, one of which has just emitted its second Segment.
C17_Witness ==
    /\ pc[1] = "segment"
    /\ CountType(events[1], "segment") = 2
    /\ pc[2] \in Streaming
    /\ CountType(events[2], "segment") >= 1

\* --------------------------------------------------------------------- C18

\* The file type of the media locators of the model, written out.
ExpectedType(path) ==
    CASE path = PathAudio -> "audio"
      [] path = PathVideo -> "video"
      [] OTHER -> "unknown"

\* C18: in every reachable state, whatever the other session did, the
\* segment ids of a session are 1, 2, ... over the segments its own engine
\* run yielded for its own file, its counter is their number, Start and
\* Complete carry the name and type of its own media locator and Complete
\* its own number of segments.
C18_SessionIsolation ==
    \A s \in Sessions :
        LET evs == events[s]
            segs == SegmentEvents(evs)
        IN  /\ segment_count[s] = Len(segs)
            /\ Len(segs) = Len(produced[s])
            /\ \A i \in 1..Len(segs) :
                  /\ segs[i].segment_id = i
                  /\ [start |-> segs[i].start_time, end |-> segs[i].end_time,
                      text |-> segs[i].text] \in EngineYields(media_path[s], i)
            /\ Len(evs) >= 1 =>
                  /\ evs[1].file_type = ExpectedType(media_path[s])
                  /\ evs[1].file_name = basename(media_path[s])
                  /\ file_type[s] = ExpectedType(media_path[s])
            /\ (Len(evs) >= 1 /\ Last(evs).type = "complete") =>
                  /\ Last(evs).total_segments = Len(segs)
                  /\ Last(evs).file_type = ExpectedType(media_path[s])

\* Two sessions in flight on different files with different segment counts.
C18_Witness ==
    /\ pc[1] = "segment"
    /\ pc[2] = "sleep"
    /\ media_path[1] = PathAudio
    /\ media_path[2] = PathVideo
    /\ segment_count[1] = 2
    /\ segment_count[2] = 1

\* --------------------------------------------------------------------- C19

\* C19 (as claimed): two sessions whose (model_size, device, compute_type)
\* differ never hold the same instance.
C19_KeyInjective ==
    \A s, t \in Sessions :
        (model[s] # 0 /\ model[t] # 0 /\ req[s].cfg # req[t].cfg) =>
            model[s] # model[t]

\* =========================================================================
\* The wire format and the client (asr.py)
\* =========================================================================

\* The element "LS" of a string stands for U+2028 LINE SEPARATOR.

\* ------------------------------------------------------- json.dumps (server)

\* Values of a dict handed to json.dumps: [k |-> "str", s |-> characters],
\* [k |-> "int", n |-> n] and [k |-> "float", n |-> n] (the float n.0).
JStr(s) == [k |-> "str", s |-> s]
JInt(n) == [k |-> "int", n |-> n]
JFloat(n) == [k |-> "float", n |-> n]

DigitChars == <<"0", "1", "2", "3", "4", "5", "6", "7", "8", "9">>

\* Decimal digits of a natural number.
RECURSIVE IntChars(_)
IntChars(n) ==
    IF n < 10 THEN <<DigitChars[n + 1]>>
    ELSE IntChars(n \div 10) \o <<DigitChars[(n % 10) + 1]>>

\* json.dumps(..., ensure_ascii=False) on one character of a string: quote,
\* backslash and control characters are escaped, everything else, U+2028
\* included, is written as it is.
EscapeChar(c) ==
    CASE c = "\"" -> <<"\\", "\"">>
      [] c = "\\" -> <<"\\", "\\">>
      [] c = "\n" -> <<"\\", "n">>
      [] OTHER -> <<c>>

RECURSIVE EscapeChars(_)
EscapeChars(s) ==
    IF s = <<>> THEN <<>> ELSE EscapeChar(Head(s)) \o EscapeChars(Tail(s))

json_string(s) == <<"\"">> \o EscapeChars(s) \o <<"\"">>

json_value(v) ==
    CASE v.k = "str" -> json_string(v.s)
      [] v.k = "int" -> IntChars(v.n)
      [] v.k = "float" -> IntChars(v.n) \o <<".", "0">>

\* The members of a dict, a sequence of <<key, value>> in insertion order,
\* joined by ", " with ": " after each key.
RECURSIVE json_members(_)
json_members(d) ==
    IF d = <<>> THEN <<>>
    ELSE json_string(d[1][1]) \o <<":", " ">> \o json_value(d[1][2])
         \o (IF Len(d) > 1 THEN <<",", " ">> ELSE <<>>)
         \o json_members(Tail(d))

json_dumps(d) == <<"{">> \o json_members(d) \o <<"}">>

\* f"data: {json.dumps(...)}\n\n"
DataPrefix == <<"d", "a", "t", "a", ":", " ">>
sse_frame(payload) == DataPrefix \o payload \o <<"\n", "\n">>

\* The dicts the session builds (the timestamp member is left out: the model
\* has no clock).
start_info(file_name, ft) ==
    << <<<<"t", "y", "p", "e">>, JStr(<<"s", "t", "a", "r", "t">>)>>, <<<<"f", "i", "l", "e", "_", "n", "a", "m", "e">>, JStr(file_name)>>,
       <<<<"f", "i", "l", "e", "_", "t", "y", "p", "e">>, JStr(ft)>> >>

segment_data(id, start, end, text) ==
    << <<<<"t", "y", "p", "e">>, JStr(<<"s", "e", "g", "m", "e", "n", "t">>)>>, <<<<"s", "e", "g", "m", "e", "n", "t", "_", "i", "d">>, JInt(id)>>,
       <<<<"s", "t", "a", "r", "t", "_", "t", "i", "m", "e">>, JFloat(start)>>, <<<<"e", "n", "d", "_", "t", "i", "m", "e">>, JFloat(end)>>,
       <<<<"t", "e", "x", "t">>, JStr(text)>> >>

complete_info(count, ft) ==
    << <<<<"t", "y", "p", "e">>, JStr(<<"c", "o", "m", "p", "l", "e", "t", "e">>)>>, <<<<"t", "o", "t", "a", "l", "_", "s", "e", "g", "m", "e", "n", "t", "s">>, JInt(count)>>,
       <<<<"f", "i", "l", "e", "_", "t", "y", "p", "e">>, JStr(ft)>> >>

error_info(msg) ==
    << <<<<"t", "y", "p", "e">>, JStr(<<"e", "r", "r", "o", "r">>)>>, <<<<"e", "r", "r", "o", "r", "_", "m", "e", "s", "s", "a", "g", "e">>, JStr(msg)>> >>

\* ------------------------------------------------------- json.loads (client)

\* Decoded values: [k |-> "str", s |-> characters], [k |-> "num", n |-> n],
\* [k |-> "null"], [k |-> "arr"] (the empty list) and [k |-> "obj", m |-> a
\* function from keys to decoded values].  The parser covers the JSON the
\* frames of the model are written in: objects of scalars, strings with the
\* escapes of EscapeChar, naturals with an optional ".0", null and [].
JFail == [ok |-> FALSE]

RECURSIVE SkipWs(_, _)
SkipWs(s, i) == IF i <= Len(s) /\ s[i] = " " THEN SkipWs(s, i + 1) ELSE i

UnescapeChar(c) == IF c = "n" THEN "\n" ELSE c

\* The string whose opening quote is before position i.
RECURSIVE ScanString(_, _, _)
ScanString(s, i, acc) ==
    IF i > Len(s) THEN JFail
    ELSE IF s[i] = "\"" THEN [ok |-> TRUE, val |-> [k |-> "str", s |-> acc], next |-> i + 1]
    ELSE IF s[i] = "\\"
         THEN IF i + 1 <= Len(s) /\ s[i + 1] \in {"\"", "\\", "n"}
              THEN ScanString(s, i + 2, Append(acc, UnescapeChar(s[i + 1])))
              ELSE JFail
    ELSE IF s[i] = "\n" THEN JFail
    ELSE ScanString(s, i + 1, Append(acc, s[i]))

IsDigit(c) == \E n \in 1..10 : DigitChars[n] = c

DigitValue(c) == (CHOOSE n \in 1..10 : DigitChars[n] = c) - 1

RECURSIVE ScanDigits(_, _, _)
ScanDigits(s, i, acc) ==
    IF i <= Len(s) /\ IsDigit(s[i])
    THEN ScanDigits(s, i + 1, acc * 10 + DigitValue(s[i]))
    ELSE [n |-> acc, next |-> i]

ScanNumber(s, i) ==
    LET whole == ScanDigits(s, i, 0)
        j == whole.next
    IN  IF j + 1 <= Len(s) /\ s[j] = "." /\ s[j + 1] = "0"
        THEN [ok |-> TRUE, val |-> [k |-> "num", n |-> whole.n], next |-> j + 2]
        ELSE [ok |-> TRUE, val |-> [k |-> "num", n |-> whole.n], next |-> j]

ParseScalar(s, i) ==
    IF i > Len(s) THEN JFail
    ELSE IF s[i] = "\"" THEN ScanString(s, i + 1, <<>>)
    ELSE IF IsDigit(s[i]) THEN ScanNumber(s, i)
    ELSE IF i + 1 <= Len(s) /\ s[i] = "[" /\ s[i + 1] = "]"
         THEN [ok |-> TRUE, val |-> [k |-> "arr"], next |-> i + 2]
    ELSE IF i + 3 <= Len(s) /\ SubSeq(s, i, i + 3) = <<"n", "u", "l", "l">>
         THEN [ok |-> TRUE, val |-> [k |-> "null"], next |-> i + 4]
    ELSE JFail

\* The members of an object from position i (a key is expected there); acc
\* holds the members read so far, a later duplicate key wins.
RECURSIVE ParseMembers(_, _, _)
ParseMembers(s, i, acc) ==
    LET i1 == SkipWs(s, i)
    IN  IF i1 > Len(s) \/ s[i1] # "\"" THEN JFail
        ELSE LET key == ScanString(s, i1 + 1, <<>>)
             IN  IF ~key.ok THEN JFail
                 ELSE LET i2 == SkipWs(s, key.next)
                      IN  IF i2 > Len(s) \/ s[i2] # ":" THEN JFail
                          ELSE LET v == ParseScalar(s, SkipWs(s, i2 + 1))
                               IN  IF ~v.ok THEN JFail
                                   ELSE LET i3 == SkipWs(s, v.next)
                                            got == (key.val.s :> v.val) @@ acc
                                        IN  IF i3 > Len(s) THEN JFail
                                            ELSE IF s[i3] = "," THEN ParseMembers(s, i3 + 1, got)
                                            ELSE IF s[i3] = "}"
                                                 THEN [ok |-> TRUE,
                                                       val |-> [k |-> "obj", m |-> got],
                                                       next |-> i3 + 1]
                                            ELSE JFail

ParseObject(s, i) ==
    LET i1 == SkipWs(s, i + 1)
    IN  IF i1 <= Len(s) /\ s[i1] = "}"
        THEN [ok |-> TRUE, val |-> [k |-> "obj", m |-> <<>>], next |-> i1 + 1]
        ELSE ParseMembers(s, i1, <<>>)

\* json.loads(s): [ok |-> TRUE, val |-> value], or [ok |-> FALSE] for a
\* JSONDecodeError (no value, or text after the value).
json_loads(s) ==
    LET i == SkipWs(s, 1)
        r == IF i <= Len(s) /\ s[i] = "{" THEN ParseObject(s, i) ELSE ParseScalar(s, i)
    IN  IF r.ok /\ SkipWs(s, r.next) = Len(s) + 1
        THEN [ok |-> TRUE, val |-> r.val]
        ELSE JFail

\* dict.get(key, default)
DictGet(d, key, default) == IF key \in DOMAIN d.m THEN d.m[key] ELSE default

\* ------------------------------------------------------ str.splitlines etc.

\* The line boundaries of str.splitlines() among the characters of the model.
LineBreaks == {"\n", "LS"}

\* The positions of the line boundaries of s, and the n-th of them.
BreakPositions(s) == {i \in 1..Len(s) : s[i] \in LineBreaks}

NthBreak(s, n) ==
    IF n = 0 THEN 0
    ELSE CHOOSE i \in BreakPositions(s) :
             Cardinality({j \in BreakPositions(s) : j <= i}) = n

\* str.splitlines(): one line before each boundary, the boundary left out,
\* and the rest after the last boundary if it is not empty.
splitlines(s) ==
    LET n == Cardinality(BreakPositions(s))
        ended == [k \in 1..n |-> SubSeq(s, NthBreak(s, k - 1) + 1, NthBreak(s, k) - 1)]
        rest == SubSeq(s, NthBreak(s, n) + 1, Len(s))
    IN  IF rest = <<>> THEN ended ELSE Append(ended, rest)

\* line.startswith(prefix)
startswith(line, prefix) ==
    Len(line) >= Len(prefix) /\ SubSeq(line, 1, Len(prefix)) = prefix

\* Whitespace str.strip() removes, among the characters of the model.
Whitespace == {" ", "\n", "LS"}

RECURSIVE lstrip(_)
lstrip(s) == IF s # <<>> /\ Head(s) \in Whitespace THEN lstrip(Tail(s)) ELSE s

RECURSIVE rstrip(_)
rstrip(s) ==
    IF s # <<>> /\ s[Len(s)] \in Whitespace THEN rstrip(SubSeq(s, 1, Len(s) - 1)) ELSE s

\* str.strip()
strip(s) == rstrip(lstrip(s))

\* ------------------------------------------------------- what a server sends

MaxFrames == 3

TextHi == <<"h", "i">>
TextThere == <<"t", "h", "e", "r", "e">>
TextLead == <<" ", "a">>
TextEsc == <<"\"", "\\", "\n", "z">>
TextLS == <<"a", "LS", "b">>

\* The segments a stream of the model can carry.
WireSegments ==
    { [id |-> 1, start |-> 0, end |-> 1, text |-> TextHi],
      [id |-> 2, start |-> 1, end |-> 2, text |-> TextThere],
      [id |-> 3, start |-> 2, end |-> 3, text |-> TextLead],
      [id |-> 4, start |-> 3, end |-> 4, text |-> TextEsc],
      [id |-> 12, start |-> 4, end |-> 15, text |-> TextLS] }

\* Payloads that are not an event: not JSON at all, and JSON that is a list.
RawBroken == <<"{">>
RawList == <<"[", "]">>

\* What a frame is made from.
FrameInputs ==
    {[kind |-> "start"], [kind |-> "complete"], [kind |-> "error"],
     [kind |-> "raw", payload |-> RawBroken],
     [kind |-> "raw", payload |-> RawList]}
    \cup {[kind |-> "segment", seg |-> sg] : sg \in WireSegments}

\* The frame as the server writes it.
EncodeFrame(f) ==
    CASE f.kind = "start" -> sse_frame(json_dumps(start_info(<<"a", ".", "m", "p", "3">>, <<"a", "u", "d", "i", "o">>)))
      [] f.kind = "segment" ->
            sse_frame(json_dumps(segment_data(f.seg.id, f.seg.start, f.seg.end, f.seg.text)))
      [] f.kind = "complete" -> sse_frame(json_dumps(complete_info(2, <<"a", "u", "d", "i", "o">>)))
      [] f.kind = "error" -> sse_frame(json_dumps(error_info(<<"b", "o", "o", "m">>)))
      [] f.kind = "raw" -> sse_frame(f.payload)

RECURSIVE EncodeStream(_)
EncodeStream(fs_) ==
    IF fs_ = <<>> THEN <<>> ELSE EncodeFrame(Head(fs_)) \o EncodeStream(Tail(fs_))

Streams == UNION {[1..n -> FrameInputs] : n \in 0..MaxFrames}

\* ------------------------------------------------------------------ main()

\* What the health endpoint can answer: 200 with a JSON object, another
\* status, no connection, 200 with a body that is not JSON, 200 with JSON
\* that is not an object.
HealthAnswers == {"ok", "non200", "unreachable", "bad_body", "non_dict_body"}

\* Mutant: a non-200 answer counts as a successful check.
test_connection_lenient(answer) ==
    CASE answer \in {"ok", "non200"} -> "True"
      [] answer \in {"unreachable", "bad_body"} -> "False"
      [] answer = "non_dict_body" -> "AttributeError"

\* test_connection(): True, False, or the exception that leaves it
\* (data.get on a body that is not a dict; only RequestException is caught).
test_connection(answer) ==
    CASE answer = "ok" -> "True"
      [] answer \in {"non200", "unreachable", "bad_body"} -> "False"
      [] answer = "non_dict_body" -> "AttributeError"

ClientStep(next) == client' = next /\ UNCHANGED server_vars

\* main() up to the dispatch: parse the arguments, run the health check,
\* sys.exit(1) when it fails; an exception leaving main ends the process
\* with a traceback and status 1.
main_health_check ==
    /\ client.pc = "main"
    /\ \E upload \in BOOLEAN, save \in BOOLEAN, answer \in HealthAnswers :
         LET checked == [client EXCEPT !.upload = upload, !.save = save,
                                       !.health = answer]
         IN  IF test_connection(answer) = "True"
             THEN ClientStep([checked EXCEPT !.pc = "dispatch"])
             ELSE ClientStep([checked EXCEPT !.pc = "exited", !.exit_code = 1])

RequestKind == IF client.upload THEN "upload" ELSE "asr"

\* The process ends: main() returned (status 0) after the transcription call
\* ended with the given outcome.
Exited(c, outcome) == [c EXCEPT !.pc = "exited", !.outcome = outcome, !.exit_code = 0]

\* transcribe_file / upload_and_transcribe: the request is sent and a
\* streaming response with status 200 arrives.
send_request ==
    /\ client.pc = "dispatch"
    /\ \E stream \in Streams :
         ClientStep([client EXCEPT !.pc = "reading",
                                   !.requests = Append(@, RequestKind),
                                   !.sent = stream,
                                   !.lines = splitlines(EncodeStream(stream))])

\* The request is sent and requests.get/post or raise_for_status raises a
\* RequestException.
send_request_fail ==
    /\ client.pc = "dispatch"
    /\ ClientStep(Exited([client EXCEPT !.requests = Append(@, RequestKind)],
                         "request_failed"))

\* upload_and_transcribe: open(file_path, 'rb') raises FileNotFoundError.
upload_file_missing ==
    /\ client.pc = "dispatch"
    /\ client.upload
    /\ ClientStep(Exited(client, "file_not_found"))

\* ------------------------------------------------------------ the frame loop

JNum(n) == [k |-> "num", n |-> n]
JText(s) == [k |-> "str", s |-> s]
JNone == [k |-> "null"]

KeyType == <<"t", "y", "p", "e">>

EventTypeOf(data) == DictGet(data, KeyType, JNone)

\* _handle_event(data, segments): the segments list afterwards, and whether
\* an exception left it (data.get on a value that is not a dict, a number
\* format applied to a value that is not a number).
handle_event(data, segments) ==
    IF data.k # "obj" THEN [raised |-> TRUE, segments |-> segments]
    ELSE LET event_type == EventTypeOf(data)
         IN  IF event_type = JText(<<"l", "a", "n", "g", "u", "a", "g", "e", "_", "d", "e", "t", "e", "c", "t", "e", "d">>)
             THEN [raised |-> DictGet(data, <<"l", "a", "n", "g", "u", "a", "g", "e", "_", "p", "r", "o", "b", "a", "b", "i", "l", "i", "t", "y">>, JNum(0)).k # "num",
                   segments |-> segments]
             ELSE IF event_type = JText(<<"s", "e", "g", "m", "e", "n", "t">>)
             THEN LET start == DictGet(data, <<"s", "t", "a", "r", "t", "_", "t", "i", "m", "e">>, JNum(0))
                      end == DictGet(data, <<"e", "n", "d", "_", "t", "i", "m", "e">>, JNum(0))
                      text == DictGet(data, <<"t", "e", "x", "t">>, JText(<<>>))
                      segment_id == DictGet(data, <<"s", "e", "g", "m", "e", "n", "t", "_", "i", "d">>, JNum(0))
                  IN  IF start.k # "num" \/ end.k # "num"
                      THEN [raised |-> TRUE, segments |-> segments]
                      ELSE [raised |-> FALSE,
                            segments |-> Append(segments,
                                [id |-> segment_id, start |-> start,
                                 end |-> end, text |-> text])]
             ELSE IF event_type = JText(<<"c", "o", "m", "p", "l", "e", "t", "e">>)
             THEN [raised |-> DictGet(data, <<"e", "l", "a", "p", "s", "e", "d", "_", "t", "i", "m", "e">>, JNum(0)).k # "num",
                   segments |-> segments]
             ELSE [raised |-> FALSE, segments |-> segments]

IsTerminalEvent(data) ==
    data.k = "obj" /\ EventTypeOf(data) \in {JText(<<"c", "o", "m", "p", "l", "e", "t", "e">>), JText(<<"e", "r", "r", "o", "r">>)}

\* One iteration of `for line in response.iter_lines(...)`.
read_line ==
    /\ client.pc = "reading"
    /\ client.lines # <<>>
    /\ LET line == Head(client.lines)
           rest == [client EXCEPT !.lines = Tail(@)]
       IN  IF ~startswith(line, DataPrefix) THEN ClientStep(rest)
           ELSE LET decoded == json_loads(SubSeq(line, Len(DataPrefix) + 1, Len(line)))
                IN  IF ~decoded.ok THEN ClientStep(rest)
                    ELSE LET data == decoded.val
                             handled == handle_event(data, client.segments)
                             seen == [rest EXCEPT !.segments = handled.segments,
                                                  !.terminal_seen = @ \/ IsTerminalEvent(data)]
                         IN  IF handled.raised
                             THEN ClientStep(Exited(seen, "unknown_error"))
                             ELSE IF EventTypeOf(data) # JText(<<"s", "e", "g", "m", "e", "n", "t">>)
                             THEN ClientStep(seen)
                             ELSE LET text == DictGet(data, <<"t", "e", "x", "t">>, JText(<<>>))
                                  IN  IF text.k # "str"
                                      THEN ClientStep(Exited(seen, "unknown_error"))
                                      ELSE ClientStep([seen EXCEPT !.total_text =
                                                          @ \o text.s \o <<"\n">>])

\* The connection breaks while the response is read: iter_lines raises a
\* RequestException.
read_fail ==
    /\ client.pc = "reading"
    /\ ClientStep(Exited(client, "request_failed"))

\* The text handed to _save_to_file.
SavedText(total_text) == strip(total_text)

\* The response ended: `if save_to_file and total_text.strip()`.
end_of_stream ==
    /\ client.pc = "reading"
    /\ client.lines = <<>>
    /\ IF client.save /\ SavedText(client.total_text) # <<>>
       THEN ClientStep([client EXCEPT !.pc = "save_open_text"])
       ELSE ClientStep(Exited(client, "finished"))

\* ------------------------------------------------------------ _save_to_file

\* The dict _save_to_file dumps (json.dump and a later json.load give the
\* same dict back: its values are strings, numbers, lists and dicts).
DetailedJson(text, segments) ==
    [total_segments |-> Len(segments), segments |-> segments, full_text |-> text]

\* open(file_path, 'w') creates or truncates the text file.
save_open_text ==
    /\ client.pc = "save_open_text"
    /\ ClientStep([client EXCEPT !.pc = "save_write_text", !.out_text = Partial])

\* f.write(text) and the end of the with block.
save_write_text ==
    /\ client.pc = "save_write_text"
    /\ ClientStep([client EXCEPT !.pc = "save_open_json",
                                 !.out_text = Written(SavedText(client.total_text))])

\* open(json_file, 'w') creates or truncates the detailed file.
save_open_json ==
    /\ client.pc = "save_open_json"
    /\ ClientStep([client EXCEPT !.pc = "save_dump_json", !.out_json = Partial])

\* json.dump(...), the end of the with block and the return to main.
save_dump_json ==
    /\ client.pc = "save_dump_json"
    /\ ClientStep(Exited([client EXCEPT !.out_json =
                              Written(DetailedJson(SavedText(client.total_text),
                                                   client.segments))],
                         "finished"))

\* An open() raises OSError: `except Exception` of _save_to_file prints a
\* warning and the call returns.
save_open_fail ==
    /\ client.pc \in {"save_open_text", "save_open_json"}
    /\ ClientStep(Exited([client EXCEPT !.save_failed = TRUE], "finished"))

\* -------------------------------------------------------------- Ctrl-C

InTranscription ==
    {"reading", "save_open_text", "save_write_text", "save_open_json", "save_dump_json"}

\* KeyboardInterrupt inside the try block of transcribe_file /
\* upload_and_transcribe: `except KeyboardInterrupt` prints a message, the
\* with blocks close the files as they are, main returns.
keyboard_interrupt ==
    /\ client.pc \in InTranscription
    /\ ClientStep(Exited(client, "interrupted"))

\* KeyboardInterrupt in main() outside the transcription call: nothing
\* catches it, the process ends with a traceback (status 130).
keyboard_interrupt_main ==
    /\ client.pc \in {"main", "dispatch"}
    /\ ClientStep([client EXCEPT !.pc = "exited", !.outcome = "traceback",
                                 !.exit_code = 130])

ClientNext ==
    \/ main_health_check
    \/ send_request
    \/ send_request_fail
    \/ upload_file_missing
    \/ read_line
    \/ read_fail
    \/ end_of_stream
    \/ save_open_text
    \/ save_write_text
    \/ save_open_json
    \/ save_dump_json
    \/ save_open_fail
    \/ keyboard_interrupt
    \/ keyboard_interrupt_main

SpecClient == Init /\ [][ClientNext]_vars

\* ------------------------------------------------- properties of the client

\* The segments a stream carries, in order.
RECURSIVE SentSegments(_)
SentSegments(stream) ==
    IF stream = <<>> THEN <<>>
    ELSE (IF Head(stream).kind = "segment" THEN <<Head(stream).seg>> ELSE <<>>)
         \o SentSegments(Tail(stream))

\* The entry of the segments list that stands for a segment.
AsClientSegment(sg) ==
    [id |-> JNum(sg.id), start |-> JNum(sg.start), end |-> JNum(sg.end),
     text |-> JText(sg.text)]

ExpectedSegments(stream) ==
    [i \in 1..Len(SentSegments(stream)) |-> AsClientSegment(SentSegments(stream)[i])]

\* t1, ..., tn joined by single newlines.
RECURSIVE JoinLines(_)
JoinLines(segs) ==
    IF segs = <<>> THEN <<>>
    ELSE IF Len(segs) = 1 THEN segs[1].text
    ELSE segs[1].text \o <<"\n">> \o JoinLines(Tail(segs))

HasMalformed(stream) == \E i \in 1..Len(stream) : stream[i].kind = "raw"

HasLineSeparator(stream) ==
    \E i \in 1..Len(SentSegments(stream)) :
        \E j \in 1..Len(SentSegments(stream)[i].text) :
            SentSegments(stream)[i].text[j] = "LS"

\* The frame loop is over and neither a Ctrl-C nor the transport ended it.
StreamRead ==
    /\ client.requests # <<>>
    /\ client.pc # "reading"
    /\ client.outcome \notin {"interrupted", "request_failed"}

\* The transcription call returned normally and no open() failed.
FinishedClean ==
    /\ client.pc = "exited"
    /\ client.outcome = "finished"
    /\ ~client.save_failed

\* C11: a stream that is the one frame the server encodes for a segment
\* (id, start, end, text), once split into lines and decoded by the client,
\* has given exactly one entry of the segments list, with that id, start,
\* end and text.
C11_RoundTrip ==
    \A sg \in WireSegments :
        (client.sent = <<[kind |-> "segment", seg |-> sg]>> /\ StreamRead)
            => client.segments = <<AsClientSegment(sg)>>

\* C12: when the stream held a frame that is not an event (no JSON, or JSON
\* that is not an object), the segments of all its well-formed frames have
\* been accumulated once the loop is over.
C12_MalformedSkipped ==
    (StreamRead /\ HasMalformed(client.sent) /\ ~HasLineSeparator(client.sent))
        => client.segments = ExpectedSegments(client.sent)

\* C13: with a save destination and n >= 1 segments in a well-formed stream,
\* the text file holds t1..tn joined by single newlines and the detailed
\* file holds total_segments = n, the n segments in order and that text.
C13_SavedContent ==
    (/\ FinishedClean
     /\ client.save
     /\ ~HasMalformed(client.sent)
     /\ ~HasLineSeparator(client.sent)
     /\ Len(SentSegments(client.sent)) >= 1)
        => /\ client.out_text = Written(JoinLines(SentSegments(client.sent)))
           /\ client.out_json =
                Written([total_segments |-> Len(SentSegments(client.sent)),
                         segments |-> ExpectedSegments(client.sent),
                         full_text |-> JoinLines(SentSegments(client.sent))])

\* C14: with a save destination, when the terminal event of a well-formed
\* stream was observed and the call returned, both output files are written.
C14_SavedAtTerminal ==
    (/\ FinishedClean
     /\ client.save
     /\ client.terminal_seen
     /\ ~HasMalformed(client.sent)
     /\ ~HasLineSeparator(client.sent))
        => /\ client.out_text.st = "written"
           /\ client.out_json.st = "written"

\* C15: a transcription request is sent only after a successful health
\* check, and when the health check fails (no connection, or a status other
\* than 200) the process has exited with status 1 and sent no request.
C15_HealthCheckFirst ==
    /\ client.requests # <<>> => client.health = "ok"
    /\ client.health \in {"unreachable", "non200"}
           => /\ client.pc = "exited"
              /\ client.exit_code = 1
              /\ client.requests = <<>>

\* The health check failed against an unreachable server and the process
\* exited with status 1.
C15_Witness ==
    /\ client.health = "unreachable"
    /\ client.pc = "exited"
    /\ client.exit_code = 1

\* C16: after a Ctrl-C the text file and the detailed file are either both
\* absent or both completely written, with the same text.
C16_InterruptKeepsOutput ==
    client.outcome = "interrupted"
        => \/ client.out_text = Absent /\ client.out_json = Absent
           \/ /\ client.out_text.st = "written"
              /\ client.out_json.st = "written"
              /\ client.out_json.content.full_text = client.out_text.content

====
